---- MODULE Spec2Model ----
(***************************************************************************)
(* A model of bgs.py, the BoardGameGeek board game suggestion script:      *)
(* the main pipeline (add_known_players, add_guests,                       *)
(* use_games_owned_by_these_players, rate_our_games, show_your_decision),  *)
(* the candidate filter, the scoring formulas and the expansion graph.     *)
(*                                                                         *)
(* Floats are modelled in fixed point: 1.0 is Unit (10^5), so one more     *)
(* decimal digit than standardize() keeps.  pow(2, x) and math.exp(-x) are *)
(* piecewise linear between the exact values at multiples of 1/8.          *)
(* Python's None is the number None (-1), which no field can hold.         *)
(***************************************************************************)
EXTENDS Integers, Sequences, FiniteSets, TLC

None == -1

Unit == 10 ^ 5

Step == Unit \div (10 ^ 4)

\* ---------------------------------------------------------------- bounds

GameIds == {1, 2, 3}

MaxGuests == 1

MaxLimit == 2

\* ------------------------------------------------------- general helpers

Range(s) == {s[i] : i \in 1..Len(s)}

Abs(x) == IF x < 0 THEN -x ELSE x

Max(a, b) == IF a >= b THEN a ELSE b

Min(a, b) == IF a <= b THEN a ELSE b

SetMax(S) == CHOOSE x \in S : \A y \in S : y <= x

RECURSIVE SumOver(_, _)
SumOver(f, S) ==
    IF S = {} THEN 0
    ELSE LET x == CHOOSE y \in S : TRUE IN f[x] + SumOver(f, S \ {x})

\* round(value, 4): to the nearest multiple of Step, ties to even
Round4(value) ==
    LET q == value \div Step
        r == value % Step
    IN  IF 2 * r < Step THEN q * Step
        ELSE IF 2 * r > Step THEN (q + 1) * Step
        ELSE IF q % 2 = 0 THEN q * Step ELSE (q + 1) * Step

standardize_no_round(value) == Max(0, Min(Unit, value))

standardize(value) == Max(0, Min(Unit, Round4(value)))

\* 2^(k/8) in fixed point, k = 0..8
Pow2Table == <<100000, 109051, 118921, 129684, 141421, 154221, 168179, 183401, 200000>>

\* pow(2, x) for x >= 0 in fixed point
Pow2(x) ==
    LET n  == x \div Unit
        f  == x % Unit
        k  == (f * 8) \div Unit
        r  == (f * 8) % Unit
        lo == Pow2Table[k + 1]
        hi == Pow2Table[k + 2]
    IN  (lo + ((hi - lo) * r) \div Unit) * (2 ^ n)

\* math.exp(-x) for x >= 0 in fixed point: 2^(-x * log2(e))
ExpNeg(x) ==
    IF x >= 20 * Unit THEN 0
    ELSE LET y == x + ((x \div 100) * 44270) \div 1000
             n == (y + Unit - 1) \div Unit
         IN  Pow2(n * Unit - y) \div (2 ^ n)

\* a * b for two fixed point numbers in 0..Unit
MulFix(a, b) == (a * (b \div 10)) \div (Unit \div 10)

\* --------------------------------------------------------- program data

Users == {"ann", "bob"}

VoteCategories == {"Best", "Recommended", "Not Recommended"}

\* GameStats: one player's statistics of one game
GameStats(owned, rating, play_count, want_to_play) ==
    [owned |-> owned, rating |-> rating, play_count |-> play_count,
     want_to_play |-> want_to_play]

\* Player: games_stats is a function from the ids of the player's collection
Player(username, is_guest, games_stats) ==
    [username |-> username, is_guest |-> is_guest, games_stats |-> games_stats]

\* Game: expansion_of is the empty set where the code holds None;
\* suggested_players is the empty function where the code holds None
Game(player_min, player_max, playing_time, expansion_of, average_weight, average_rating, suggested_players) ==
    [player_min |-> player_min, player_max |-> player_max,
     playing_time |-> playing_time, expansion_of |-> expansion_of,
     average_weight |-> average_weight, average_rating |-> average_rating,
     suggested_players |-> suggested_players]

is_an_expansion(game) == game.expansion_of # {}

\* ---------------------------------------------------- the scoring engine

ScoreWeightPlayingTime == 4

ScoreWeightWeight == 4

ScoreWeightSuggested == 2

ScoreWeightPlayers == 4

\* `if x:` on an optional float
Truthy(x) == x # None /\ x # 0

PlayingTimeRawNoCutoff(target, game_time) ==
    LET delta_time == Abs(target - game_time)
        raw_score  == (delta_time * 3 * Unit) \div target + 2 * Unit
    IN  Unit - (Pow2(Min(raw_score, 8 * Unit)) - 4 * Unit) \div 28

PlayingTimeRawHalfTarget(target, game_time) ==
    LET delta_time == Abs(target - game_time)
        max_delta  == target \div 2
    IN  IF delta_time >= max_delta THEN 0
        ELSE LET raw_score == (delta_time * 3 * Unit) \div max_delta + 2 * Unit
             IN  Unit - (Pow2(raw_score) - 4 * Unit) \div 28

PlayingTimeRaw(target, game_time) ==
    LET delta_time == Abs(target - game_time)
        max_delta  == target
    IN  IF delta_time >= max_delta THEN 0
        ELSE LET raw_score == (delta_time * 3 * Unit) \div max_delta + 2 * Unit
             IN  Unit - (Pow2(raw_score) - 4 * Unit) \div 28

ScorePlayingTime(game, playing_time, weight) ==
    IF game.playing_time # None /\ playing_time # None
    THEN <<PlayingTimeRaw(playing_time, game.playing_time), ScoreWeightPlayingTime>>
    ELSE IF Truthy(weight) THEN <<Unit \div 2, ScoreWeightPlayingTime>>
    ELSE <<0, 0>>

WeightRaw(target, game_weight) ==
    LET delta_weight == Abs(target - game_weight)
        max_delta    == (5 * Unit) \div 2
    IN  IF delta_weight >= max_delta THEN 0
        ELSE LET raw_score == (delta_weight * 2 * 2) \div 5 + 2 * Unit
             IN  Unit - (Pow2(raw_score) - 4 * Unit) \div 16

ScoreWeight(game, weight) ==
    IF game.average_weight # None /\ weight # None
    THEN <<WeightRaw(weight, game.average_weight), ScoreWeightWeight>>
    ELSE IF Truthy(weight) THEN <<Unit \div 2, ScoreWeightWeight>>
    ELSE <<0, 0>>

\* the votes of the poll for exactly number_of_players, or the empty function
SuggestedValues(game, number_of_players) ==
    IF number_of_players \in DOMAIN game.suggested_players
    THEN game.suggested_players[number_of_players]
    ELSE <<>>

\* suggested_values['Best'] and the like raise KeyError on a missing category
SuggestedKeyError(game, number_of_players) ==
    LET suggested_values == SuggestedValues(game, number_of_players)
    IN  /\ DOMAIN suggested_values # {}
        /\ ~(VoteCategories \subseteq DOMAIN suggested_values)

ScoreSuggestedWithNotRecommended(game, number_of_players) ==
    LET suggested_values == SuggestedValues(game, number_of_players)
    IN  IF DOMAIN suggested_values = {}
        THEN <<(6 * Unit) \div 10, ScoreWeightSuggested>>
        ELSE LET suggested_max_score == SumOver(suggested_values, DOMAIN suggested_values)
                 not_rec == (suggested_values["Not Recommended"] * (Unit \div 2)) \div suggested_max_score
                 best    == (suggested_values["Best"] * Unit) \div suggested_max_score
                 rec     == (suggested_values["Recommended"] * (Unit \div 2)) \div suggested_max_score
             IN  <<Max(0, not_rec + best + rec), ScoreWeightSuggested>>

ScoreSuggested(game, number_of_players) ==
    LET suggested_values == SuggestedValues(game, number_of_players)
    IN  IF DOMAIN suggested_values = {}
        THEN <<(6 * Unit) \div 10, ScoreWeightSuggested>>
        ELSE LET suggested_max_score == SumOver(suggested_values, DOMAIN suggested_values)
                 not_rec == (suggested_values["Not Recommended"] * (Unit \div 2)) \div suggested_max_score
                 best    == (suggested_values["Best"] * Unit) \div suggested_max_score
                 rec     == (suggested_values["Recommended"] * (Unit \div 2)) \div suggested_max_score
             IN  <<Max(0, not_rec + best + rec - not_rec), ScoreWeightSuggested>>

CountsWantToPlay(player, game_id) ==
    /\ ~player.is_guest
    /\ game_id \in DOMAIN player.games_stats
    /\ player.games_stats[game_id].want_to_play

\* does this member add to players_score and divide_by?
Counts(player, game_id) ==
    /\ ~player.is_guest
    /\ game_id \in DOMAIN player.games_stats
    /\ LET stats == player.games_stats[game_id]
       IN  stats.want_to_play \/ Truthy(stats.rating)

\* what one counted member adds to players_score
Contribution(stats) ==
    IF stats.want_to_play
    THEN IF Truthy(stats.rating) THEN (8 * Unit) \div 10 + stats.rating \div 5
         ELSE (9 * Unit) \div 10
    ELSE IF stats.play_count # 0
         THEN MulFix(ExpNeg((stats.play_count * Unit * 100)
                            \div (Pow2(stats.rating * 10) \div 1000)),
                     stats.rating)
         ELSE (stats.rating * 4) \div 5

RECURSIVE PlayersSum(_, _, _)
PlayersSum(game_group, game_id, i) ==
    IF i > Len(game_group) THEN 0
    ELSE (IF Counts(game_group[i], game_id)
          THEN Contribution(game_group[i].games_stats[game_id]) ELSE 0)
         + PlayersSum(game_group, game_id, i + 1)

\* divide_by, in halves (the average rating counts 0.5, a member 1.0)
DivideBy2(game, game_group, game_id) ==
    (IF Truthy(game.average_rating) THEN 1 ELSE 0)
    + 2 * Cardinality({i \in 1..Len(game_group) : Counts(game_group[i], game_id)})

ScorePlayers(game, game_group, game_id) ==
    LET players_score ==
            (IF Truthy(game.average_rating) THEN game.average_rating \div 2 ELSE 0)
            + PlayersSum(game_group, game_id, 1)
        divide_by2 == DivideBy2(game, game_group, game_id)
    IN  IF divide_by2 > 0
        THEN <<(players_score * 2) \div divide_by2, ScoreWeightPlayers>>
        ELSE <<Unit \div 2, ScoreWeightPlayers>>

Scores(game, game_id, game_group, playing_time, weight) ==
    <<ScorePlayingTime(game, playing_time, weight),
      ScoreWeight(game, weight),
      ScoreSuggested(game, Len(game_group)),
      ScorePlayers(game, game_group, game_id)>>

FinalScore(scores) ==
    LET score_weights_sum == SumOver([i \in 1..4 |-> scores[i][2]], 1..4)
    IN  IF score_weights_sum > 0
        THEN standardize(SumOver([i \in 1..4 |-> scores[i][1] * scores[i][2]], 1..4)
                         \div score_weights_sum)
        ELSE 0

\* ------------------------------------------------------------ the state

VARIABLES
    pc,                   \* the call of __main__ that runs next, or how the run ended
    arguments,            \* the parsed command line: username, guests, collection, force
    server_games,         \* BoardGameGeek's data of every game
    server_stats,         \* BoardGameGeek's collection of every user
    disk_players,         \* the <username>.player files: username -> the games_stats saved
    disk_collection,      \* the game ids in master.collection (empty: no file)
    ALREADY_DOWNLOADED_PLAYERS,  \* the module's download memo: username -> parsed games
    downloads,            \* per username, the collection downloads made so far
    game_group,           \* Master.__game_group
    collection_group,     \* Master.__collection_group
    collection,           \* Master.__collection: game id -> Game
    available_collection, \* Master.__available_collection
    possible_collection,  \* Master.__possible_collection
    evaluations,          \* Master.__evaluations: game id -> final score
    targets,              \* the playing_time and weight rate_our_games was called with
    mode,                 \* the limit and separate_exp show_your_decision was called with
    new_eval,             \* show_your_decision's new_eval: game id -> display score
    ranking,              \* the ranking lines logged, in order
    errors,               \* the messages logged with log().error, in order
    exit_status,          \* the process's exit status, None while it runs
    exception,            \* the unhandled exception that ended the run, or "none"
    scores,               \* rate_our_games' local scores: sub-score name -> <<raw, weight>>
    request               \* the get_xml call in progress: what is asked, the attempts, the result

vars == <<pc, arguments, server_games, server_stats, disk_players, disk_collection,
          ALREADY_DOWNLOADED_PLAYERS, downloads, game_group, collection_group,
          collection, available_collection, possible_collection, evaluations,
          targets, mode, new_eval, ranking, errors, exit_status, exception, scores,
          request>>

world == <<arguments, server_games, server_stats>>

\* ------------------------------------------------------ the input space

\* (player_min, player_max) of a game
Brackets == {<<None, None>>, <<1, 1>>, <<2, 2>>}

\* what BoardGameGeek knows of a game besides its players bracket, and what
\* ann says of it: "rich" has every statistic, "bare" has none
Profiles == {"rich", "bare"}

Poll == [c \in VoteCategories |->
            IF c = "Best" THEN 12 ELSE IF c = "Recommended" THEN 6 ELSE 2]

ProfileGame(bracket, profile, expansion_of) ==
    IF profile = "rich"
    THEN Game(bracket[1], bracket[2], 60, expansion_of, (5 * Unit) \div 2,
              (8 * Unit) \div 10, [n \in 1..2 |-> Poll])
    ELSE Game(bracket[1], bracket[2], None, expansion_of, None, None, <<>>)

\* a game nobody owns is never read: one representative stands for all of them
GameOptions ==
    {[owned |-> FALSE, bracket |-> <<1, 2>>, profile |-> "bare"]}
    \cup [owned : {TRUE}, bracket : Brackets, profile : Profiles]

\* expansions reference games of a lower id: no cycles
Topologies == {t \in [GameIds -> SUBSET GameIds] : \A g \in GameIds : \A b \in t[g] : b < g}

\* ann owns the owned games of an odd id, bob those of an even id; ann has
\* statistics of every game, bob only of the games bob owns
OwnerOf(game_id) == IF game_id % 2 = 0 THEN "bob" ELSE "ann"

StatsOf(username, options) ==
    IF username = "ann"
    THEN [g \in GameIds |->
            GameStats(options[g].owned /\ OwnerOf(g) = "ann",
                      IF options[g].profile = "rich" THEN (9 * Unit) \div 10 ELSE None,
                      IF options[g].profile = "rich" THEN 2 ELSE 0,
                      FALSE)]
    ELSE [g \in {h \in GameIds : options[h].owned /\ OwnerOf(h) = "bob"} |->
            GameStats(TRUE, None, 0, FALSE)]

\* what a player file of an earlier run holds: the same games, ann having
\* played the games she rates once less by then
SavedStatsOf(username, options) ==
    [g \in DOMAIN StatsOf(username, options) |->
        [StatsOf(username, options)[g] EXCEPT !.play_count = IF @ > 0 THEN @ - 1 ELSE 0]]

\* the command lines: -u ann -c ann bob, or -c ann bob with guests only
CommandLines ==
    {a \in [username : {<<>>, <<"ann">>}, guests : 0..MaxGuests,
            collection : {<<"ann", "bob">>}, force : BOOLEAN] :
        Len(a.username) + a.guests > 0}

PlayingTimes == {None, 90}

Weights == {None, 3 * Unit}

Limits == {None} \cup 1..MaxLimit

\* no get_xml call is in progress
NoRequest == [kind |-> "none", of |-> {}, attempts |-> 0, retry_count |-> 0,
              slept |-> 0, status |-> "none", result |-> "none"]

\* The files of an earlier run and --force only change which games nobody owns
\* are in the collection: they are tried on the worlds without expansions, and
\* the worlds with expansions start a first run (no file, no --force).
Init ==
    /\ arguments \in CommandLines
    /\ \E t \in Topologies, options \in [GameIds -> GameOptions], warm \in BOOLEAN :
          /\ (arguments.force \/ warm) => \A g \in GameIds : t[g] = {}
          /\ server_games = [g \in GameIds |->
                               ProfileGame(options[g].bracket, options[g].profile, t[g])]
          /\ server_stats = [u \in Users |-> StatsOf(u, options)]
          /\ disk_players = (IF warm THEN [u \in Users |-> SavedStatsOf(u, options)] ELSE <<>>)
          /\ disk_collection = (IF warm THEN GameIds ELSE {})
    /\ ALREADY_DOWNLOADED_PLAYERS = <<>>
    /\ downloads = [u \in Users |-> 0]
    /\ game_group = <<>>
    /\ collection_group = <<>>
    /\ collection = <<>>
    /\ available_collection = {}
    /\ possible_collection = {}
    /\ evaluations = <<>>
    /\ targets = <<None, None>>
    /\ mode = <<None, FALSE>>
    /\ new_eval = <<>>
    /\ ranking = <<>>
    /\ errors = <<>>
    /\ exit_status = None
    /\ exception = "none"
    /\ scores = <<>>
    /\ request = NoRequest
    /\ pc = IF arguments.username # <<>> THEN "add_known_players" ELSE "add_guests"

\* ------------------------------------------------------- loading players

\* create_players_group when download_player_stats keeps no memo
RECURSIVE create_players_group_without_memo(_, _, _, _, _)
create_players_group_without_memo(username_list, use_cache, responses, st, i) ==
    IF i > Len(username_list) \/ ~st.ok THEN st
    ELSE LET username == username_list[i]
         IN  IF use_cache /\ username \in DOMAIN st.disk
             THEN create_players_group_without_memo(username_list, use_cache, responses,
                      [st EXCEPT !.group = Append(@, Player(username, FALSE, st.disk[username]))],
                      i + 1)
             ELSE IF responses[username] = "ok"
             THEN LET parsed_games == server_stats[username]
                  IN  create_players_group_without_memo(username_list, use_cache, responses,
                          [st EXCEPT !.group = Append(@, Player(username, FALSE, parsed_games)),
                                     !.memo = (username :> parsed_games) @@ @,
                                     !.disk = (username :> parsed_games) @@ @,
                                     !.downloads[username] = @ + 1],
                          i + 1)
             ELSE [st EXCEPT !.ok = FALSE,
                             !.downloads[username] = @ + 1,
                             !.errors = @ \o <<"Cannot retrieve xml",
                                               "Cannot fetch player data",
                                               "Cannot load player data">>]

\* Player.create_players_group from its i-th username on; st carries the group
\* built so far, the memo, the player files, the downloads and the errors logged
RECURSIVE create_players_group(_, _, _, _, _)
create_players_group(username_list, use_cache, responses, st, i) ==
    IF i > Len(username_list) \/ ~st.ok THEN st
    ELSE LET username == username_list[i]
         IN  IF use_cache /\ username \in DOMAIN st.disk
             THEN \* Loaded from cache
                  create_players_group(username_list, use_cache, responses,
                      [st EXCEPT !.group = Append(@, Player(username, FALSE, st.disk[username]))],
                      i + 1)
             ELSE IF username \in DOMAIN st.memo
             THEN \* download_player_stats: already downloaded; save_to_cache
                  create_players_group(username_list, use_cache, responses,
                      [st EXCEPT !.group = Append(@, Player(username, FALSE, st.memo[username])),
                                 !.disk = (username :> st.memo[username]) @@ @],
                      i + 1)
             ELSE IF responses[username] = "ok"
             THEN \* download_player_stats: downloaded and parsed; save_to_cache
                  LET parsed_games == server_stats[username]
                  IN  create_players_group(username_list, use_cache, responses,
                          [st EXCEPT !.group = Append(@, Player(username, FALSE, parsed_games)),
                                     !.memo = (username :> parsed_games) @@ @,
                                     !.disk = (username :> parsed_games) @@ @,
                                     !.downloads[username] = @ + 1],
                          i + 1)
             ELSE \* get_xml, download_player_stats and create_players_group log
                  [st EXCEPT !.ok = FALSE,
                             !.downloads[username] = @ + 1,
                             !.errors = @ \o <<"Cannot retrieve xml",
                                               "Cannot fetch player data",
                                               "Cannot load player data">>]

PlayersState ==
    [ok |-> TRUE, group |-> <<>>, memo |-> ALREADY_DOWNLOADED_PLAYERS,
     disk |-> disk_players, downloads |-> downloads, errors |-> errors]

PlayerResponses == [Users -> {"ok", "error"}]

\* what main() calls after add_known_players
AfterPlayers == IF arguments.guests > 0 THEN "add_guests" ELSE "use_games"

add_known_players ==
    /\ pc = "add_known_players"
    /\ \E responses \in PlayerResponses :
        LET st == create_players_group(arguments.username, ~arguments.force,
                                       responses, PlayersState, 1)
        IN  /\ ALREADY_DOWNLOADED_PLAYERS' = st.memo
            /\ disk_players' = st.disk
            /\ downloads' = st.downloads
            /\ errors' = st.errors
            /\ IF st.ok
               THEN /\ game_group' = st.group
                    /\ pc' = AfterPlayers
                    /\ exit_status' = exit_status
               ELSE /\ game_group' = game_group
                    /\ pc' = "exited"
                    /\ exit_status' = 1
    /\ UNCHANGED <<world, scores, request, disk_collection, collection_group, collection,
                   available_collection, possible_collection, evaluations, targets,
                   mode, new_eval, ranking, exception>>

\* 'GUEST_%d' % i
GuestNames == <<"GUEST_0", "GUEST_1", "GUEST_2", "GUEST_3">>

\* a guest keeps the class's empty games_stats
Guest(i) == Player(GuestNames[i + 1], TRUE, <<>>)

add_guests ==
    /\ pc = "add_guests"
    /\ game_group' = game_group \o [i \in 1..arguments.guests |-> Guest(i - 1)]
    /\ pc' = "use_games"
    /\ UNCHANGED <<world, scores, request, disk_players, disk_collection, ALREADY_DOWNLOADED_PLAYERS,
                   downloads, collection_group, collection, available_collection,
                   possible_collection, evaluations, targets, mode, new_eval,
                   ranking, errors, exit_status, exception>>

\* --------------------------------------------------- loading the games

\* the games at least one player of the group owns
OwnedGames(group) ==
    {g \in GameIds : \E i \in 1..Len(group) :
        /\ g \in DOMAIN group[i].games_stats
        /\ group[i].games_stats[g].owned}

\* the usernames main() passes to use_games_owned_by_these_players
CollectionUsernames ==
    IF arguments.collection # <<>> THEN arguments.collection ELSE arguments.username

GamesResponses == {"ok", "error", "accepted"}

use_games_owned_by_these_players ==
    /\ pc = "use_games"
    /\ \E responses \in PlayerResponses, games_response \in GamesResponses :
        LET st == create_players_group(CollectionUsernames, ~arguments.force,
                                       responses, PlayersState, 1)
            collection_group_games == OwnedGames(st.group)
            cached == IF arguments.force THEN {} ELSE disk_collection
            missing_games == collection_group_games \ cached
            loaded == [g \in DOMAIN collection \cup cached |-> server_games[g]]
            updated == [g \in DOMAIN loaded \cup missing_games |-> server_games[g]]
        IN  /\ ALREADY_DOWNLOADED_PLAYERS' = st.memo
            /\ disk_players' = st.disk
            /\ downloads' = st.downloads
            /\ IF ~st.ok
               THEN \* create_players_group: exit(1)
                    /\ errors' = st.errors
                    /\ pc' = "exited"
                    /\ exit_status' = 1
                    /\ UNCHANGED <<collection_group, collection, disk_collection, exception>>
               ELSE IF missing_games # {} /\ games_response = "accepted"
               THEN \* get_xml: log.debug('Retry ...') on the function log
                    /\ collection_group' = st.group
                    /\ collection' = loaded
                    /\ errors' = st.errors
                    /\ pc' = "crashed"
                    /\ exit_status' = 1
                    /\ exception' = "AttributeError"
                    /\ UNCHANGED disk_collection
               ELSE IF missing_games # {} /\ games_response = "error"
               THEN \* download_games_data returns None: dict.update(None)
                    /\ collection_group' = st.group
                    /\ collection' = loaded
                    /\ errors' = Append(st.errors, "Cannot retrieve games xml")
                    /\ pc' = "crashed"
                    /\ exit_status' = 1
                    /\ exception' = "TypeError"
                    /\ UNCHANGED disk_collection
               ELSE IF DOMAIN updated # {}
               THEN \* save_object(self.__collection, 'master.collection')
                    /\ collection_group' = st.group
                    /\ collection' = updated
                    /\ disk_collection' = DOMAIN updated
                    /\ errors' = st.errors
                    /\ pc' = "rate"
                    /\ UNCHANGED <<exit_status, exception>>
               ELSE \* exit()
                    /\ collection_group' = st.group
                    /\ collection' = updated
                    /\ errors' = Append(st.errors, "Cannot find games in given collections, exit")
                    /\ pc' = "exited"
                    /\ exit_status' = 0
                    /\ UNCHANGED <<disk_collection, exception>>
    /\ UNCHANGED <<world, scores, request, game_group, available_collection, possible_collection,
                   evaluations, targets, mode, new_eval, ranking>>

\* ------------------------------------------------- the candidate filter

\* any([player.games_stats[game_id].owned for player in the collection group
\*      if game_id in player.games_stats])
OwnedByAny(game_id) ==
    \E i \in 1..Len(collection_group) :
        /\ game_id \in DOMAIN collection_group[i].games_stats
        /\ collection_group[i].games_stats[game_id].owned

Available == available_collection \cup {g \in DOMAIN collection : OwnedByAny(g)}

\* number_of_players in range(g.player_min, g.player_max + 1), when both are set
FitsGroup(game, number_of_players) ==
    (game.player_min # None /\ game.player_max # None)
        => number_of_players \in game.player_min..game.player_max

BaseAlways(game, available) == TRUE

\* not all([(base_id not in available) for base_id in g.expansion_of])
BaseAvailable(game, available) ==
    is_an_expansion(game) => \E base_id \in game.expansion_of : base_id \in available

Possible(available, number_of_players) ==
    {g \in available :
        /\ FitsGroup(collection[g], number_of_players)
        /\ BaseAvailable(collection[g], available)}

FilterOutcomeUnchecked(available, possible) ==
    IF available = {} THEN "no_available" ELSE "score"

\* the two checks between the filter and the rating: exit(), or go on and score
FilterOutcome(available, possible) ==
    IF available = {} THEN "no_available"
    ELSE IF possible = {} THEN "no_possible"
    ELSE "score"

rate_our_games ==
    /\ pc = "rate"
    /\ \E playing_time \in PlayingTimes, weight \in Weights :
        LET available == Available
            number_of_players == Len(game_group)
            possible == IF available = {} THEN possible_collection
                        ELSE possible_collection
                             \cup Possible(available, number_of_players)
            outcome == FilterOutcome(available, possible)
        IN  /\ targets' = <<playing_time, weight>>
            /\ available_collection' = available
            /\ possible_collection' = possible
            /\ IF outcome = "no_available"
               THEN /\ errors' = Append(errors, "No available games, check usernames and/or collections for owned games")
                    /\ pc' = "exited"
                    /\ exit_status' = 0
                    /\ UNCHANGED <<evaluations, exception>>
               ELSE IF outcome = "no_possible"
               THEN /\ errors' = Append(errors, "No possible games for this game group, sorry")
                    /\ pc' = "exited"
                    /\ exit_status' = 0
                    /\ UNCHANGED <<evaluations, exception>>
               ELSE IF \E g \in possible : SuggestedKeyError(collection[g], number_of_players)
               THEN /\ pc' = "crashed"
                    /\ exit_status' = 1
                    /\ exception' = "KeyError"
                    /\ UNCHANGED <<evaluations, errors>>
               ELSE /\ evaluations' = [g \in possible |->
                           FinalScore(Scores(collection[g], g, game_group,
                                             playing_time, weight))]
                    /\ pc' = "show"
                    /\ UNCHANGED <<errors, exit_status, exception>>
    /\ UNCHANGED <<world, scores, request, disk_players, disk_collection, ALREADY_DOWNLOADED_PLAYERS,
                   downloads, game_group, collection_group, collection, mode,
                   new_eval, ranking>>

\* ---------------------------------------------- the expansion collapser

\* build_exp_graph: the nodes and the edges base -> expansion of g
GraphNodes ==
    {g \in possible_collection : is_an_expansion(collection[g])}
    \cup {b \in available_collection :
            \E g \in possible_collection : b \in collection[g].expansion_of}

GraphEdges ==
    {e \in available_collection \X possible_collection :
        e[1] \in collection[e[2]].expansion_of}

\* the node attribute isBase
isBase(node) == ~is_an_expansion(collection[node])

Bases == {n \in GraphNodes : isBase(n)}

Expansions == {n \in GraphNodes : ~isBase(n)}

\* networkx.all_simple_paths: the simple paths that extend path and end at target
RECURSIVE all_simple_paths(_, _)
all_simple_paths(path, target) ==
    LET last == path[Len(path)]
    IN  IF last = target THEN {path}
        ELSE UNION {all_simple_paths(Append(path, n), target) :
                      n \in {m \in GraphNodes : <<last, m>> \in GraphEdges
                                                /\ m \notin Range(path)}}

\* every simple path from a base to a node that is not a base
PathsFrom(node) == UNION {all_simple_paths(<<node>>, child) : child \in Expansions}

PathMaxes(path) == {collection[n].player_max : n \in Range(path)} \ {None}

PathMins(path) == {collection[n].player_min : n \in Range(path)} \ {None}

\* max([]) raises ValueError
PathRaises(path) == PathMaxes(path) = {} \/ PathMins(path) = {}

\* if p_max and p_min: len(self.__game_group) in range(p_min, p_max + 1)
Feasible(path, number_of_players) ==
    LET p_max == SetMax(PathMaxes(path))
        p_min == SetMax(PathMins(path))
    IN  /\ p_max # 0
        /\ p_min # 0
        /\ number_of_players \in p_min..p_max

\* base_to_exp: per base, its feasible paths
base_to_exp ==
    [node \in Bases |-> {path \in PathsFrom(node) : Feasible(path, Len(game_group))}]

\* the games on the feasible paths of a base, the base included
OnFeasiblePath(base) == UNION {Range(path) : path \in base_to_exp[base]}

\* the last games of the feasible paths of a base
EndOfFeasiblePath(base) == {path[Len(path)] : path \in base_to_exp[base]}

\* self.__evaluations.get(base, 0.0)
OwnScore(base) == IF base \in DOMAIN evaluations THEN evaluations[base] ELSE 0

MaxScoreOwn(base) == OwnScore(base)

MaxScoreOfEnds(base) ==
    SetMax({OwnScore(base)} \cup {evaluations[g] : g \in EndOfFeasiblePath(base) \cap DOMAIN evaluations})

\* max_scores[base], for a base with a feasible path
MaxScore(base) ==
    SetMax({OwnScore(base)}
           \cup {evaluations[g] : g \in OnFeasiblePath(base) \cap DOMAIN evaluations})

\* the exceptions of the collapsed mode, all raised before a line is logged
GraphValueError == \E node \in Bases : \E path \in PathsFrom(node) : PathRaises(path)

PopKeyError == \E node \in Expansions : node \notin DOMAIN evaluations

MaxScoresKeyError == \E node \in Bases : base_to_exp[node] = {}

RemovedLeaves ==
    {n \in Expansions : ~\E e \in GraphEdges : e[1] = n}

\* the nodes popped from new_eval: those that are no key of base_to_exp
Removed == GraphNodes \ Bases

NewEval ==
    [g \in (DOMAIN evaluations \ Removed) \cup Bases |->
        IF g \in Bases THEN MaxScore(g) ELSE evaluations[g]]

\* the best entry of S: the highest score, the first inserted (lowest id) among equals
Best(eval, S) ==
    CHOOSE g \in S : \A h \in S : eval[g] > eval[h] \/ (eval[g] = eval[h] /\ g <= h)

Worst(eval, S) ==
    CHOOSE g \in S : \A h \in S : eval[g] < eval[h] \/ (eval[g] = eval[h] /\ g <= h)

RECURSIVE SortedAscending(_, _)
SortedAscending(eval, S) ==
    IF S = {} THEN <<>>
    ELSE LET g == Worst(eval, S) IN <<g>> \o SortedAscending(eval, S \ {g})

\* sorted(eval.items(), key=operator.itemgetter(1), reverse=True), the ids
RECURSIVE Sorted(_, _)
Sorted(eval, S) ==
    IF S = {} THEN <<>>
    ELSE LET g == Best(eval, S) IN <<g>> \o Sorted(eval, S \ {g})

\* sorted_evaluation[:limit] if limit
Limited(sorted_evaluation, limit) ==
    IF limit = None THEN sorted_evaluation
    ELSE SubSeq(sorted_evaluation, 1, Min(limit, Len(sorted_evaluation)))

ListedAtLeastBase(game_id) ==
    IF game_id \in Bases
    THEN [e \in {x \in OnFeasiblePath(game_id) \ {game_id} :
                    evaluations[x] >= OwnScore(game_id)} |-> standardize(evaluations[e])]
    ELSE <<>>

\* the 'with expansion' lines under a game: expansion -> the score shown
Listed(game_id) ==
    IF game_id \in Bases
    THEN [e \in OnFeasiblePath(game_id) \ {game_id} |-> standardize(evaluations[e])]
    ELSE <<>>

\* a logged line: the game, the score it was ranked by, the score shown (None for
\* 'you must use an expansion to play this game') and the expansions under it
CollapsedLine(game_id, eval) ==
    [game_id |-> game_id, score |-> eval[game_id],
     shown |-> IF game_id \in DOMAIN evaluations
               THEN standardize(evaluations[game_id]) ELSE None,
     expansions |-> Listed(game_id)]

SeparateLine(game_id) ==
    [game_id |-> game_id, score |-> evaluations[game_id],
     shown |-> standardize(evaluations[game_id]), expansions |-> <<>>]

show_your_decision ==
    /\ pc = "show"
    /\ \E limit \in Limits, separate_exp \in BOOLEAN :
        /\ mode' = <<limit, separate_exp>>
        /\ IF separate_exp
           THEN LET sorted_evaluation ==
                        Limited(Sorted(evaluations, DOMAIN evaluations), limit)
                IN  /\ ranking' = [i \in 1..Len(sorted_evaluation) |->
                                      SeparateLine(sorted_evaluation[i])]
                    /\ pc' = "done"
                    /\ UNCHANGED <<new_eval, exit_status, exception>>
           ELSE IF GraphValueError
           THEN \* build_exp_graph: max([])
                /\ pc' = "crashed"
                /\ exit_status' = 1
                /\ exception' = "ValueError"
                /\ UNCHANGED <<new_eval, ranking>>
           ELSE IF PopKeyError \/ MaxScoresKeyError
           THEN \* new_eval.pop(game_id), max_scores[game_id]
                /\ pc' = "crashed"
                /\ exit_status' = 1
                /\ exception' = "KeyError"
                /\ UNCHANGED <<new_eval, ranking>>
           ELSE LET sorted_evaluation ==
                        Limited(Sorted(NewEval, DOMAIN NewEval), limit)
                IN  /\ new_eval' = NewEval
                    /\ ranking' = [i \in 1..Len(sorted_evaluation) |->
                                      CollapsedLine(sorted_evaluation[i], new_eval')]
                    /\ pc' = "done"
                    /\ UNCHANGED <<exit_status, exception>>
    /\ UNCHANGED <<world, scores, request, disk_players, disk_collection, ALREADY_DOWNLOADED_PLAYERS,
                   downloads, game_group, collection_group, collection,
                   available_collection, possible_collection, evaluations, targets,
                   errors>>

\* ------------------------------------------------------------- the run

Next ==
    \/ add_known_players
    \/ add_guests
    \/ use_games_owned_by_these_players
    \/ rate_our_games
    \/ show_your_decision

Spec == Init /\ [][Next]_vars

\* ------------------------------- the scoring loop of one game, in steps

MaxMembers == 2

MaxQuarters == 16

\* the target playing times of the command line (None: not given)
TargetTimes == {None, 30, 60, 120}

\* the playing times of a game: unset, one minute, and the quarters of an hour
GameTimes == {None, 1} \cup {15 * k : k \in 1..MaxQuarters}

GameWeights == {None, (5 * Unit) \div 2}

AverageRatings == {None, (8 * Unit) \div 10}

\* the votes of one player count: complete, or with an option skipped at parse time
VoteDicts ==
    { [c \in VoteCategories |-> IF c = "Best" THEN 12 ELSE IF c = "Recommended" THEN 6 ELSE 2],
      [c \in VoteCategories |-> IF c = "Best" THEN 0 ELSE IF c = "Recommended" THEN 4 ELSE 16],
      [c \in VoteCategories |-> IF c = "Best" THEN 10 ELSE 0],
      [c \in VoteCategories |-> IF c = "Not Recommended" THEN 10 ELSE 0],
      [c \in VoteCategories \ {"Best"} |-> IF c = "Recommended" THEN 6 ELSE 4],
      [c \in VoteCategories \ {"Not Recommended"} |-> IF c = "Best" THEN 7 ELSE 5] }

\* Game.suggested_players: None, or the votes of some player counts
SuggestedPlayers ==
    {<<>>} \cup UNION {{[n \in D |-> v] : v \in VoteDicts} : D \in {{1}, {2}, {1, 2}}}

\* what a known member says of the game that is rated
MemberKinds == {"no_stats", "plain", "want", "want_rated", "rated_played", "rated_unplayed"}

KindStats(kind) ==
    GameStats(FALSE,
              IF kind \in {"want_rated", "rated_played", "rated_unplayed"}
              THEN (7 * Unit) \div 10 ELSE None,
              IF kind = "rated_played" THEN 3 ELSE 0,
              kind \in {"want", "want_rated"})

MemberNames == <<"ann", "cat", "dan">>

Member(kind, i) ==
    Player(MemberNames[i], FALSE,
           IF kind = "no_stats" THEN <<>> ELSE [game_id \in {1} |-> KindStats(kind)])

\* the game groups: known members first, then the guests, at least one player
Groups ==
    {[i \in 1..Len(kinds) |-> Member(kinds[i], i)] \o [i \in 1..guests |-> Guest(i - 1)] :
        <<kinds, guests>> \in
            {x \in (UNION {[1..n -> MemberKinds] : n \in 0..MaxMembers}) \X (0..MaxGuests) :
                Len(x[1]) + x[2] > 0}}

\* a collection owner outside the game group, who owns the game that is rated
Owner == Player("bob", FALSE, [game_id \in {1} |-> GameStats(TRUE, None, 0, FALSE)])

\* the inputs of the scoring loop: the game, the game group and the two targets;
\* one family per sub-score, the other inputs held at one value
ScoreInputs ==
    {[g |-> Game(1, 4, p, {}, gw, None, <<>>), game_group |-> <<Guest(0)>>,
      playing_time |-> t, weight |-> w] :
        <<p, gw, t, w>> \in GameTimes \X GameWeights \X TargetTimes \X Weights}
    \cup {[g |-> Game(1, 4, 60, {}, None, None, sp), game_group |-> group,
           playing_time |-> None, weight |-> None] :
             <<sp, group>> \in SuggestedPlayers \X {<<Member("want", 1)>>,
                                                    <<Member("want", 1), Guest(0)>>,
                                                    <<Guest(0)>>}}
    \cup {[g |-> Game(1, 4, None, {}, None, ar, <<>>), game_group |-> group,
           playing_time |-> None, weight |-> None] :
             <<ar, group>> \in AverageRatings \X Groups}

\* rate_our_games has filtered: one possible game, nothing scored yet
ScoreInit ==
    /\ \E input \in ScoreInputs :
          /\ collection = [game_id \in {1} |-> input.g]
          /\ server_games = [game_id \in {1} |-> input.g]
          /\ game_group = input.game_group
          /\ targets = <<input.playing_time, input.weight>>
          /\ server_stats = [u \in {p.username : p \in {q \in Range(input.game_group) : ~q.is_guest}}
                               \cup {"bob"} |->
                               IF u = "bob" THEN Owner.games_stats
                               ELSE (CHOOSE q \in Range(input.game_group) : q.username = u).games_stats]
          /\ arguments = [username |-> LET known == SelectSeq(input.game_group, LAMBDA q : ~q.is_guest)
                                       IN  [i \in 1..Len(known) |-> known[i].username],
                          guests |-> Cardinality({i \in 1..Len(input.game_group) : input.game_group[i].is_guest}),
                          collection |-> <<"bob">>, force |-> FALSE]
    /\ collection_group = <<Owner>>
    /\ available_collection = {1}
    /\ possible_collection = {1}
    /\ disk_players = <<>>
    /\ disk_collection = {1}
    /\ ALREADY_DOWNLOADED_PLAYERS = <<>>
    /\ downloads = [u \in DOMAIN server_stats |-> 1]
    /\ evaluations = <<>>
    /\ mode = <<None, FALSE>>
    /\ new_eval = <<>>
    /\ ranking = <<>>
    /\ errors = <<>>
    /\ exit_status = None
    /\ exception = "none"
    /\ scores = <<>>
    /\ request = NoRequest
    /\ pc = "score_playing_time"

\* for game_id in self.__possible_collection
RatedGame == CHOOSE game_id \in possible_collection : TRUE

\* what no step of the scoring loop writes
loop_frame == <<world, request, disk_players, disk_collection, ALREADY_DOWNLOADED_PLAYERS, downloads,
                game_group, collection_group, collection, available_collection,
                possible_collection, targets, mode, new_eval, ranking, errors>>

score_playing_time ==
    /\ pc = "score_playing_time"
    /\ scores' = "score_playing_time" :>
                    ScorePlayingTime(collection[RatedGame], targets[1], targets[2])
    /\ pc' = "score_weight"
    /\ UNCHANGED <<loop_frame, evaluations, exit_status, exception>>

score_weight ==
    /\ pc = "score_weight"
    /\ scores' = scores @@ ("score_weight" :> ScoreWeight(collection[RatedGame], targets[2]))
    /\ pc' = "suggested_values"
    /\ UNCHANGED <<loop_frame, evaluations, exit_status, exception>>

suggested_values ==
    /\ pc = "suggested_values"
    /\ IF SuggestedKeyError(collection[RatedGame], Len(game_group))
       THEN /\ pc' = "crashed"
            /\ exit_status' = 1
            /\ exception' = "KeyError"
            /\ UNCHANGED scores
       ELSE /\ scores' = scores @@ ("suggested_values" :>
                            ScoreSuggested(collection[RatedGame], Len(game_group)))
            /\ pc' = "players_score"
            /\ UNCHANGED <<exit_status, exception>>
    /\ UNCHANGED <<loop_frame, evaluations>>

players_score ==
    /\ pc = "players_score"
    /\ scores' = scores @@ ("players_score" :>
                    ScorePlayers(collection[RatedGame], game_group, RatedGame))
    /\ pc' = "final_score"
    /\ UNCHANGED <<loop_frame, evaluations, exit_status, exception>>

final_score ==
    /\ pc = "final_score"
    /\ evaluations' = RatedGame :>
            FinalScore(<<scores["score_playing_time"], scores["score_weight"],
                         scores["suggested_values"], scores["players_score"]>>)
    /\ pc' = "show"
    /\ UNCHANGED <<loop_frame, scores, exit_status, exception>>

ScoreNext ==
    \/ score_playing_time
    \/ score_weight
    \/ suggested_values
    \/ players_score
    \/ final_score

ScoreSpec == ScoreInit /\ [][ScoreNext]_vars

\* ------------------------------------------ the two get_xml, call by call

MaxAttempts == 20

REQUEST_DELAY == 2

RetryLimit == 10

\* r.status_code: requests.codes.ok, requests.codes.accepted, or any other
StatusCodes == {"ok", "accepted", "other"}

\* a download_player_stats or a download_games_data has just called get_xml
FetchInit ==
    /\ \/ \E username \in Users :
            /\ request = [NoRequest EXCEPT !.kind = "player", !.of = {username},
                                           !.result = "pending"]
            /\ pc = "player_get_xml"
       \/ \E game_id_list \in (SUBSET GameIds) \ {{}} :
            /\ request = [NoRequest EXCEPT !.kind = "games", !.of = game_id_list,
                                           !.result = "pending"]
            /\ pc = "games_get_xml"
    /\ arguments = [username |-> <<"ann">>, guests |-> 0, collection |-> <<"ann", "bob">>,
                    force |-> FALSE]
    /\ server_games = <<>>
    /\ server_stats = <<>>
    /\ disk_players = <<>>
    /\ disk_collection = {}
    /\ ALREADY_DOWNLOADED_PLAYERS = <<>>
    /\ downloads = [u \in Users |-> 0]
    /\ game_group = <<>>
    /\ collection_group = <<>>
    /\ collection = <<>>
    /\ available_collection = {}
    /\ possible_collection = {}
    /\ evaluations = <<>>
    /\ targets = <<None, None>>
    /\ mode = <<None, FALSE>>
    /\ new_eval = <<>>
    /\ ranking = <<>>
    /\ errors = <<>>
    /\ exit_status = None
    /\ exception = "none"
    /\ scores = <<>>

\* what no get_xml writes
fetch_frame == <<world, scores, disk_players, disk_collection, ALREADY_DOWNLOADED_PLAYERS,
                 downloads, game_group, collection_group, collection,
                 available_collection, possible_collection, evaluations, targets, mode,
                 new_eval, ranking>>

\* Player.download_player_stats.get_xml: one call, the recursive call being the next
player_get_xml ==
    /\ pc = "player_get_xml"
    /\ request.attempts < MaxAttempts
    /\ \E status_code \in StatusCodes :
         IF status_code = "ok"
         THEN /\ request' = [request EXCEPT !.attempts = @ + 1, !.status = status_code,
                                            !.result = "text"]
              /\ pc' = "returned"
              /\ UNCHANGED errors
         ELSE IF status_code # "accepted"
         THEN /\ request' = [request EXCEPT !.attempts = @ + 1, !.status = status_code,
                                            !.result = "None"]
              /\ errors' = Append(errors, "Cannot retrieve xml")
              /\ pc' = "returned"
         ELSE \* time.sleep(REQUEST_DELAY); return get_xml(username)
              /\ request' = [request EXCEPT !.attempts = @ + 1, !.status = status_code,
                                            !.slept = @ + REQUEST_DELAY]
              /\ UNCHANGED <<pc, errors>>
    /\ UNCHANGED <<fetch_frame, exit_status, exception>>

\* Game.download_games_data.get_xml: one call, the recursive call being the next
games_get_xml ==
    /\ pc = "games_get_xml"
    /\ \E status_code \in StatusCodes :
         IF status_code = "ok"
         THEN /\ request' = [request EXCEPT !.attempts = @ + 1, !.status = status_code,
                                            !.result = "text"]
              /\ pc' = "returned"
              /\ UNCHANGED <<errors, exit_status, exception>>
         ELSE IF status_code # "accepted"
         THEN /\ request' = [request EXCEPT !.attempts = @ + 1, !.status = status_code,
                                            !.result = "None"]
              /\ errors' = Append(errors, "Cannot retrieve games xml")
              /\ pc' = "returned"
              /\ UNCHANGED <<exit_status, exception>>
         ELSE IF request.retry_count < RetryLimit
         THEN \* log.debug('Retry #%d' % retry_count): the function log has no debug
              /\ request' = [request EXCEPT !.attempts = @ + 1, !.status = status_code,
                                            !.result = "raised"]
              /\ pc' = "crashed"
              /\ exit_status' = 1
              /\ exception' = "AttributeError"
              /\ UNCHANGED errors
         ELSE /\ request' = [request EXCEPT !.attempts = @ + 1, !.status = status_code,
                                            !.result = "None"]
              /\ errors' = Append(errors, "Cannot retrieve games xml")
              /\ pc' = "returned"
              /\ UNCHANGED <<exit_status, exception>>
    /\ UNCHANGED fetch_frame

FetchNext ==
    \/ player_get_xml
    \/ games_get_xml

FetchSpec == FetchInit /\ [][FetchNext]_vars

\* ----------------------------------------------------------- the claims

NumberOfPlayers == Len(game_group)

Collapsed == pc = "done" /\ ~mode[2]

Separate == pc = "done" /\ mode[2]

\* game_id is owned by at least one player of the collection group
OwnedByAnOwner(game_id) ==
    \E i \in 1..Len(collection_group) :
        /\ game_id \in DOMAIN server_stats[collection_group[i].username]
        /\ server_stats[collection_group[i].username][game_id].owned

WithinBracket(game_id) ==
    /\ server_games[game_id].player_min <= NumberOfPlayers
    /\ NumberOfPlayers <= server_games[game_id].player_max

BothSet(game_id) ==
    /\ server_games[game_id].player_min # None
    /\ server_games[game_id].player_max # None

\* C1: after rate_our_games a game is possible if and only if it is available,
\* the group size is within its bracket when both ends of the bracket are set,
\* and, when it is an expansion, one of its bases is available; an available
\* game is in the collection and owned by a collection owner.
C1_PossibleIffAvailableAndFits ==
    /\ \A g \in GameIds :
          g \in possible_collection <=>
             /\ g \in available_collection
             /\ BothSet(g) => WithinBracket(g)
             /\ server_games[g].expansion_of # {} =>
                   server_games[g].expansion_of \cap available_collection # {}
    /\ \A g \in available_collection : g \in DOMAIN collection /\ OwnedByAnOwner(g)
    /\ pc \in {"show", "done"} =>
          \A g \in DOMAIN collection : OwnedByAnOwner(g) => g \in available_collection

\* a game with an unset bracket end is possible beside an available expansion
\* that is left out because none of its bases is available
C1_Witness ==
    /\ pc = "show"
    /\ \E g \in possible_collection : ~BothSet(g)
    /\ \E e \in available_collection \ possible_collection :
          /\ server_games[e].expansion_of # {}
          /\ BothSet(e) => WithinBracket(e)

FourDecimalsInUnit(score) == 0 <= score /\ score <= Unit /\ score % Step = 0

\* C2: every final score stored by rate_our_games, every display score of the
\* collapsed ranking and every score a line is ranked by or shows is in [0,1]
\* and has at most 4 decimal digits.
C2_ScoresStandardized ==
    /\ \A g \in DOMAIN evaluations : FourDecimalsInUnit(evaluations[g])
    /\ \A g \in DOMAIN new_eval : FourDecimalsInUnit(new_eval[g])
    /\ \A i \in 1..Len(ranking) :
          /\ FourDecimalsInUnit(ranking[i].score)
          /\ ranking[i].shown # None => FourDecimalsInUnit(ranking[i].shown)

\* the weighted average of a game before standardize
Unrounded(game_id) ==
    LET sub_scores == Scores(collection[game_id], game_id, game_group, targets[1], targets[2])
    IN  SumOver([i \in 1..4 |-> sub_scores[i][1] * sub_scores[i][2]], 1..4)
        \div SumOver([i \in 1..4 |-> sub_scores[i][2]], 1..4)

\* with both targets given, a game whose weighted average has a fifth decimal
\* digit is stored and heads a collapsed ranking
C2_Witness ==
    /\ Collapsed
    /\ targets[1] # None /\ targets[2] # None
    /\ Len(ranking) > 0
    /\ ranking[1].game_id \in DOMAIN evaluations
    /\ Unrounded(ranking[1].game_id) % Step # 0

\* what the filter leaves nothing of: no available game, or no possible game
NoCandidates == available_collection = {} \/ possible_collection = {}

\* C3: a run whose available set or possible set is empty stops inside
\* rate_our_games (exit) before any game is scored; nothing runs after the
\* exit, so show_your_decision never does and no ranking line is logged.
C3_NoCandidatesNoRanking ==
    /\ [](NoCandidates => /\ pc \notin {"show", "done"}
                          /\ evaluations = <<>>
                          /\ ranking = <<>>)
    /\ [][/\ (pc = "rate" /\ NoCandidates') => (pc' = "exited" /\ evaluations' = <<>>)
          /\ pc # "exited"]_vars

\* rate_our_games has exited with owned games of which none fits the group
C3_Witness ==
    /\ pc = "exited"
    /\ available_collection # {}
    /\ possible_collection = {}
    /\ errors # <<>>
    /\ errors[Len(errors)] = "No possible games for this game group, sorry"

\* C4 (as claimed): every fatal condition logs exactly one error and ends the
\* process with a non-zero exit status.
C4_FatalOneErrorNonZero ==
    pc = "exited" => Len(errors) = 1 /\ exit_status # 0

\* C5 (as claimed): when the data provider returns None for a player or for the
\* games, the run ends on the error-and-exit path, with no unhandled exception
\* and no ranking.
C5_NoDataIsControlledExit ==
    ("Cannot retrieve games xml" \in Range(errors)
       \/ "Cannot fetch player data" \in Range(errors))
    => pc = "exited" /\ exception = "none" /\ ranking = <<>>

\* the expansions on a feasible path of a base, at its end or in its middle
ExpansionsOnFeasiblePaths(base) ==
    {path[i] : <<path, i>> \in {x \in base_to_exp[base] \X (2..Cardinality(GameIds)) :
                                   x[2] <= Len(x[1])}}

\* the expansions at the end of a feasible path of a base
ExpansionsEndingFeasiblePaths(base) == {path[Len(path)] : path \in base_to_exp[base]}

\* score is the greatest of own and the scores of the games of S
IsMaxOf(score, own, S) ==
    /\ score >= own
    /\ \A g \in S : score >= evaluations[g]
    /\ score = own \/ \E g \in S : score = evaluations[g]

\* C6 (as claimed): the display score of a base is the maximum of its own score
\* and the scores of the expansions that end a feasible path from it.
C6_DisplayIsMaxOverPathEnds ==
    Collapsed =>
        \A base \in Bases :
            IsMaxOf(new_eval[base], OwnScore(base), ExpansionsEndingFeasiblePaths(base))

\* C6 (amended): the display score of a base is the maximum of its own score
\* (0 when it has none) and the scores of the expansions on a feasible path from
\* it, those in the middle of a feasible path included; it is never below the
\* base's own score.
C6_DisplayIsMaxOverFeasiblePaths ==
    Collapsed =>
        \A base \in Bases :
            /\ IsMaxOf(new_eval[base], OwnScore(base), ExpansionsOnFeasiblePaths(base))
            /\ base \in DOMAIN evaluations => new_eval[base] >= evaluations[base]

\* a base whose display score is the score of an expansion that is only in the
\* middle of its feasible paths, higher than the score of every path end
C6_Witness ==
    /\ Collapsed
    /\ \E base \in Bases :
          \E x \in ExpansionsOnFeasiblePaths(base) \ ExpansionsEndingFeasiblePaths(base) :
              /\ new_eval[base] = evaluations[x]
              /\ \A e \in ExpansionsEndingFeasiblePaths(base) : evaluations[e] < evaluations[x]
              /\ OwnScore(base) < evaluations[x]

\* the path base -> expansion is feasible: max of the minimums <= N <= max of the maximums
PairFeasible(base, expansion) ==
    /\ BothSet(base)
    /\ BothSet(expansion)
    /\ Max(server_games[base].player_min, server_games[expansion].player_min) <= NumberOfPlayers
    /\ NumberOfPlayers <= Max(server_games[base].player_max, server_games[expansion].player_max)

\* the case of C7 but for who owns the expansion: an expansion of a base that is
\* no expansion and is owned, the group size within the expansion's bracket and
\* not within the base's, the path base -> expansion feasible
SurfacingCase(base, expansion) ==
    /\ base \in server_games[expansion].expansion_of
    /\ server_games[base].expansion_of = {}
    /\ OwnedByAnOwner(base)
    /\ PairFeasible(base, expansion)
    /\ WithinBracket(expansion)
    /\ ~WithinBracket(base)

Dropped == DOMAIN evaluations \ DOMAIN new_eval

\* the expansion nodes that are the base of no other node of the graph
LeafExpansions ==
    {n \in GraphNodes : /\ server_games[n].expansion_of # {}
                        /\ ~\E m \in GraphNodes : <<n, m>> \in GraphEdges}

\* C8 (as claimed): the entries removed are exactly the expansion nodes that are
\* not themselves the base of another node.
C8_RemovedAreLeafExpansions ==
    Collapsed => Dropped = LeafExpansions

\* C8 (amended): the entries removed are exactly the expansion nodes of the
\* graph, whether or not they are the base of another node; the bases that are
\* no expansion and the candidates outside the graph stay, and without a limit
\* the ranked games are exactly the entries kept.
C8_RemovedAreAllExpansionNodes ==
    Collapsed =>
        /\ Dropped = {n \in GraphNodes : server_games[n].expansion_of # {}}
        /\ \A n \in GraphNodes : server_games[n].expansion_of = {} => n \in DOMAIN new_eval
        /\ \A g \in DOMAIN evaluations : g \notin GraphNodes => g \in DOMAIN new_eval
        /\ mode[1] = None => {ranking[i].game_id : i \in 1..Len(ranking)} = DOMAIN new_eval

\* an expansion that is the base of another candidate expansion is removed
C8_Witness ==
    /\ Collapsed
    /\ \E x \in Dropped : \E m \in possible_collection :
          /\ server_games[x].expansion_of # {}
          /\ <<x, m>> \in GraphEdges

\* the entries show_your_decision ranks, and the score it ranks them by
Rankable == IF mode[2] THEN DOMAIN evaluations ELSE DOMAIN new_eval

RankingScore(game_id) == IF mode[2] THEN evaluations[game_id] ELSE new_eval[game_id]

RankedGames == {ranking[i].game_id : i \in 1..Len(ranking)}

\* C9: in both modes the ranking is in non-increasing order of the ranking score
\* (display score when collapsed, evaluation score when separate), no game is
\* ranked twice, a limit L leaves min(L, rankable entries) lines and no limit
\* leaves them all, no entry left out outscores a ranked one, and in separate
\* mode the entries are the games of the evaluation map with their own scores.
C9_RankingSortedAndLimited ==
    pc = "done" =>
        /\ \A i, j \in 1..Len(ranking) : i < j => ranking[i].score >= ranking[j].score
        /\ \A i, j \in 1..Len(ranking) : i # j => ranking[i].game_id # ranking[j].game_id
        /\ RankedGames \subseteq Rankable
        /\ \A i \in 1..Len(ranking) : ranking[i].score = RankingScore(ranking[i].game_id)
        /\ Len(ranking) = IF mode[1] = None THEN Cardinality(Rankable)
                          ELSE Min(mode[1], Cardinality(Rankable))
        /\ \A g \in Rankable \ RankedGames :
              \A i \in 1..Len(ranking) : ranking[i].score >= RankingScore(g)
        /\ mode[2] => /\ new_eval = <<>>
                      /\ \A i \in 1..Len(ranking) :
                            /\ ranking[i].shown = evaluations[ranking[i].game_id]
                            /\ ranking[i].expansions = <<>>

\* a limit of 1 cuts a ranking of entries with different scores
C9_Witness ==
    /\ pc = "done"
    /\ mode[1] = 1
    /\ Len(ranking) = 1
    /\ \E g \in Rankable : RankingScore(g) < ranking[1].score

\* C10 (as claimed): the expansions listed under a base are exactly those on a
\* feasible path from it whose score is at least the base's own score.
C10_ListedReachBaseScore ==
    Collapsed =>
        \A i \in 1..Len(ranking) :
            ranking[i].game_id \in Bases =>
                DOMAIN ranking[i].expansions =
                    {e \in ExpansionsOnFeasiblePaths(ranking[i].game_id) :
                        evaluations[e] >= OwnScore(ranking[i].game_id)}

\* C10 (amended): the expansions listed under a base are exactly the expansions
\* on a feasible path from it, whatever their score, each shown with its own
\* score; nothing is listed under a game that is no base of the graph.
C10_ListedAreAllOnFeasiblePaths ==
    Collapsed =>
        \A i \in 1..Len(ranking) :
            /\ ranking[i].game_id \in Bases =>
                  DOMAIN ranking[i].expansions = ExpansionsOnFeasiblePaths(ranking[i].game_id)
            /\ ranking[i].game_id \notin Bases => DOMAIN ranking[i].expansions = {}
            /\ \A e \in DOMAIN ranking[i].expansions :
                  ranking[i].expansions[e] = evaluations[e]

\* an expansion is listed under a base that has a higher score of its own
C10_Witness ==
    /\ Collapsed
    /\ \E i \in 1..Len(ranking) : \E e \in DOMAIN ranking[i].expansions :
          /\ ranking[i].game_id \in DOMAIN evaluations
          /\ evaluations[e] < evaluations[ranking[i].game_id]

\* ------------------------------------- the claims on the sub-scores

\* the inputs and the result of the playing-time step
TargetTime == targets[1]

TargetWeight == targets[2]

GameTime == collection[RatedGame].playing_time

TimePair == scores["score_playing_time"]

TimeCompared == /\ "score_playing_time" \in DOMAIN scores
                /\ TargetTime # None
                /\ GameTime # None

\* C11: for a target time T > 0 and a game time p the playing-time raw score is
\* 1.0 when |T - p| = 0, 0.0 when |T - p| >= T, in [0,1] otherwise, and no game
\* time further from T has a higher raw score.
C11_PlayingTimeRawDecays ==
    TimeCompared =>
        LET delta == Abs(TargetTime - GameTime)
        IN  /\ delta = 0 => TimePair[1] = Unit
            /\ delta >= TargetTime => TimePair[1] = 0
            /\ 0 <= TimePair[1] /\ TimePair[1] <= Unit
            /\ \A p \in GameTimes \ {None} :
                  Abs(TargetTime - p) >= delta => PlayingTimeRaw(TargetTime, p) <= TimePair[1]
            /\ \A p \in GameTimes \ {None} :
                  Abs(TargetTime - p) >= TargetTime => PlayingTimeRaw(TargetTime, p) = 0

\* a raw score strictly between 0 and 1, of a game longer than the target
C11_Witness ==
    /\ TimeCompared
    /\ GameTime > TargetTime
    /\ 0 < TimePair[1] /\ TimePair[1] < Unit
    /\ \E p \in GameTimes \ {None} : PlayingTimeRaw(TargetTime, p) < TimePair[1]
                                     /\ PlayingTimeRaw(TargetTime, p) > 0

\* C12 (as claimed): game of 60 minutes: target 60 gives raw 1.0, target 120
\* gives raw 0.0.
C12_Target120GivesZero ==
    (TimeCompared /\ GameTime = 60) =>
        /\ TargetTime = 60 => TimePair[1] = Unit
        /\ TargetTime = 120 => TimePair[1] = 0

\* C12 (amended): game of 60 minutes: target 60 gives raw 1.0; target 120 has
\* delta 60 below max_delta 120 and gives raw 1 - (2^3.5 - 4) / 28 = 0.7388 (to
\* four decimals); target 30 has delta 30 = max_delta and gives raw 0.0.
C12_Target120GivesPartial ==
    (TimeCompared /\ GameTime = 60) =>
        /\ TargetTime = 60 => TimePair[1] = Unit
        /\ TargetTime = 120 => /\ Abs(TargetTime - GameTime) < TargetTime
                               /\ 7387 * Step <= TimePair[1]
                               /\ TimePair[1] <= 7389 * Step
        /\ TargetTime = 30 => TimePair[1] = 0

\* the game of 60 minutes was rated for a target of 120 and the run went on
C12_Witness ==
    /\ TimeCompared
    /\ GameTime = 60
    /\ TargetTime = 120
    /\ TimePair[2] = ScoreWeightPlayingTime
    /\ pc = "show"

\* the poll of the rated game for the size of the group, if it has one
GroupSizeVotes == collection[RatedGame].suggested_players[NumberOfPlayers]

HasGroupSizeVotes == NumberOfPlayers \in DOMAIN collection[RatedGame].suggested_players

SuggestedPair == scores["suggested_values"]

Votes(category) == GroupSizeVotes[category]

\* C13: the suggested-player-count pair has weight 0.2; it is the default raw 0.6
\* when the game has no votes for exactly the size of the group, and otherwise
\* its raw value is max(0, (Best + Recommended / 2) / all votes at that size),
\* in [0,1], whatever share of the votes is 'Not Recommended'.
C13_SuggestedFromVotesOrDefault ==
    "suggested_values" \in DOMAIN scores =>
        /\ SuggestedPair[2] = ScoreWeightSuggested
        /\ ~HasGroupSizeVotes => SuggestedPair[1] = (6 * Unit) \div 10
        /\ HasGroupSizeVotes =>
              LET total == Votes("Best") + Votes("Recommended") + Votes("Not Recommended")
                  exact == Max(0, (2 * Votes("Best") + Votes("Recommended")) * Unit)
                               \div (2 * total)
              IN  /\ Abs(SuggestedPair[1] - exact) <= 1
                  /\ 0 <= SuggestedPair[1] /\ SuggestedPair[1] <= Unit

\* votes for the size of the group with 'Not Recommended' among them, and the
\* raw value is not the default
C13_Witness ==
    /\ "suggested_values" \in DOMAIN scores
    /\ HasGroupSizeVotes
    /\ Votes("Not Recommended") > 0
    /\ Votes("Best") > 0
    /\ SuggestedPair[1] # (6 * Unit) \div 10
    /\ pc = "show"

PlayersPair == scores["players_score"]

\* a member the claim counts: no guest, has statistics of the game, and has a
\* rating or wants to play
Counted(player) ==
    /\ ~player.is_guest
    /\ RatedGame \in DOMAIN player.games_stats
    /\ \/ player.games_stats[RatedGame].rating # None
       \/ player.games_stats[RatedGame].want_to_play

CountedMembers == {i \in 1..Len(game_group) : Counted(game_group[i])}

\* twice the denominator: 1 per counted member, 0.5 for the average rating
Denominator2 ==
    2 * Cardinality(CountedMembers)
    + (IF collection[RatedGame].average_rating # None THEN 1 ELSE 0)

ContributionsSum ==
    SumOver([i \in CountedMembers |-> Contribution(game_group[i].games_stats[RatedGame])],
            CountedMembers)
    + (IF collection[RatedGame].average_rating # None
       THEN collection[RatedGame].average_rating \div 2 ELSE 0)

\* the members that add nothing, in the place i of the group
IgnoredMembers(i) ==
    {Member("no_stats", i), Member("plain", i), Guest(0), Guest(1)}

\* C14: the player-taste pair is (sum of contributions / denominator, 0.4), the
\* denominator counting 1 per counted member and 0.5 for an average rating, and
\* the default (0.5, 0.4) when the denominator is 0; replacing a member that is
\* not counted by another such member leaves the pair as it is.
C14_PlayersScoreOverCounted ==
    "players_score" \in DOMAIN scores =>
        /\ PlayersPair[2] = ScoreWeightPlayers
        /\ Denominator2 = 0 => PlayersPair[1] = Unit \div 2
        /\ Denominator2 > 0 => PlayersPair[1] = (2 * ContributionsSum) \div Denominator2
        /\ \A i \in (1..Len(game_group)) \ CountedMembers :
              \A other \in IgnoredMembers(i) :
                  ScorePlayers(collection[RatedGame],
                               [game_group EXCEPT ![i] = other], RatedGame) = PlayersPair

\* a group of a rated member, a member with statistics but neither a rating nor
\* the want-to-play flag, and a guest
C14_Witness ==
    /\ "players_score" \in DOMAIN scores
    /\ Len(game_group) = 3
    /\ Counted(game_group[1])
    /\ ~game_group[1].games_stats[RatedGame].want_to_play
    /\ ~Counted(game_group[2])
    /\ RatedGame \in DOMAIN game_group[2].games_stats
    /\ game_group[3].is_guest
    /\ PlayersPair[1] # Unit \div 2

\* C15 (as claimed): a poll entry without one of the vote categories only turns
\* the suggested-player-count pair into the default; the game still gets its
\* final score and rate_our_games raises nothing.
C15_MissingCategoryGivesDefault ==
    (HasGroupSizeVotes /\ ~(VoteCategories \subseteq DOMAIN GroupSizeVotes)) =>
        /\ exception = "none"
        /\ "suggested_values" \in DOMAIN scores => SuggestedPair[1] = (6 * Unit) \div 10
        /\ pc \notin {"score_playing_time", "score_weight", "suggested_values"} =>
              pc \in {"players_score", "final_score", "show"}

\* C16 (as claimed): with a target time and no playing time of the game the
\* playing-time pair adds nothing to the final score, with or without a target
\* weight; the pair is the default (0.5, 0.4) only with a target weight and no
\* target time.
C16_NoGameTimeAddsNothing ==
    "score_playing_time" \in DOMAIN scores =>
        /\ (TargetTime # None /\ GameTime = None) => TimePair[1] * TimePair[2] = 0
        /\ (~TimeCompared /\ TimePair = <<Unit \div 2, ScoreWeightPlayingTime>>) =>
              (TargetWeight # None /\ TargetTime = None)

\* ------------------------------------------- the claims on the fetches

\* C17 (as claimed): in both fetches an 'accepted' answer is followed by a delay
\* and one more attempt, or, at the bound of the retries, by the result None; no
\* fetch raises, the games fetch makes at most 1 + 10 attempts, and a fetch
\* that ended on a status other than ok returned None.
C17_AcceptedIsRetriedWithinBound ==
    /\ request.status = "accepted" =>
          \/ request.result = "pending" /\ request.slept > 0
          \/ request.result = "None" /\ request.retry_count >= RetryLimit
    /\ request.kind = "games" => request.attempts <= RetryLimit + 1
    /\ (request.status \notin {"ok", "none"} /\ request.result # "pending") =>
          request.result = "None"
    /\ request.kind # "none" => exception = "none"

\* --------------------------------- the claims on the run, continued

\* rate_our_games has scored the candidates and the run has gone past
\* show_your_decision
AfterShow == evaluations # <<>> /\ pc # "show"

\* C18 (as claimed): whenever rate_our_games completes, show_your_decision in
\* collapsed mode completes too and logs a ranking: removing a node, looking up
\* the display score of a base and computing the bracket of a path never raise,
\* so the run never ends in an exception after the games were scored.
C18_CollapsedShowCompletes ==
    (AfterShow /\ ~mode[2]) =>
        /\ pc = "done"
        /\ exception = "none"
        /\ Len(ranking) > 0

\* the usernames the command line names as group member and as collection owner
BothRoles == Range(arguments.username) \cap Range(CollectionUsernames)

\* the games_stats the players of a group hold under one username
StatsSeenAs(group, username) ==
    {group[i].games_stats : i \in {j \in 1..Len(group) : group[j].username = username}}

\* C19: within one run, forced or not, a username that is both group member and
\* collection owner is downloaded at most once; when the collection owners are
\* built its download count does not move (memo or player file answers); both
\* roles hold the same per-game stats; and with force refresh the stats are the
\* server's, not the player file's, and no game of the collection file is loaded
C19_OneDownloadPerUsername ==
    /\ [](\A username \in BothRoles :
            /\ downloads[username] <= 1
            /\ \A as_member \in StatsSeenAs(game_group, username),
                 as_owner \in StatsSeenAs(collection_group, username) :
                    as_member = as_owner
            /\ arguments.force =>
                  \A seen \in StatsSeenAs(game_group, username)
                              \cup StatsSeenAs(collection_group, username) :
                      seen = server_stats[username])
    /\ [](arguments.force => DOMAIN collection \subseteq OwnedGames(collection_group))
    /\ [][pc = "use_games" =>
            \A username \in BothRoles :
                StatsSeenAs(game_group, username) # {} =>
                    /\ downloads'[username] = downloads[username]
                    /\ username \in DOMAIN disk_players \cup DOMAIN ALREADY_DOWNLOADED_PLAYERS]_vars

\* a forced run past both loads: ann is member and owner, downloaded once, her
\* stats in both groups, and some game of the world is not in the collection
C19_Witness ==
    /\ arguments.force
    /\ pc = "rate"
    /\ "ann" \in BothRoles
    /\ downloads["ann"] = 1
    /\ StatsSeenAs(game_group, "ann") # {}
    /\ StatsSeenAs(collection_group, "ann") # {}
    /\ DOMAIN collection # GameIds
    /\ \E g \in GameIds : server_stats["ann"][g].play_count > 0


====
